---- MODULE Spec2Model ----
(***************************************************************************)
(* Batcher-banyan bitonic sorting network of src/Validate/banyan.cu:       *)
(* the kernels shuffleN, butterflyN and compareAndSwap, the host driver    *)
(* benyan that launches them, and the part of the validation harness       *)
(* (main) that guards and calls it.                                        *)
(*                                                                         *)
(* Keys are floats in the source; the network only compares and moves      *)
(* them, so they are modelled as the integers 0..MaxKey.                   *)
(* A kernel launch is asynchronous: the host action issues it, a device    *)
(* action executes it, and cudaDeviceSynchronize waits for it.             *)
(* Spec executes a kernel in one device step; SpecLanes executes the same  *)
(* kernels one loop iteration of one thread at a time, with the barrier    *)
(* of shuffleN and butterflyN, on a smaller family of inputs.              *)
(* The direction table is only ever written (directions[comp_ind] =        *)
(* comp_bool) and never read, so its contents are not state of the model;  *)
(* the writes appear in the access sets of compareAndSwap.                 *)
(***************************************************************************)
EXTENDS Integers, Sequences, FiniteSets, TLC

\* Bounds of the model.
MaxN == 8
MaxKey == 1
MaxLaneOnes == 2

\* Program constants.
compThreadNum == 512
MaxBlockNum == 65535
MaxShuffleThreads == 1024

VARIABLES
    N,            \* ulong N: number of items
    n,            \* uint n: number of stages (log2 N)
    pc,           \* position of the host thread
    stage, substage, level, div, threadNum,   \* locals of benyan
    x,            \* device key array (d_data / x)
    y,            \* device ping-pong buffer (out)
    kernel,       \* the kernel most recently launched: kind and arguments
    kstate,       \* "idle" | "running" | "done" | "failed"
    devErr,       \* sticky device error, never inspected by benyan
    launches,     \* kernels launched by benyan so far, in order
    xPre,         \* contents of x when the current kernel was launched
    h_reference_data,  \* host reference ordering of the input
    allocated,    \* whether the device buffer has been allocated
    exitStatus,   \* process exit status, -1 while running
    inputSorted,  \* whether the generated keys were already in reference order
    h_data,       \* what the host buffer holds: "unset" | "input" | "output"
    compare,      \* result of CompareResults, -1 before the comparison
    progress      \* work items the lanes of the running kernel have completed

vars == <<N, n, pc, stage, substage, level, div, threadNum, x, y,
          kernel, kstate, devErr, launches, xPre, h_reference_data, allocated,
          exitStatus, inputSorted, h_data, compare, progress>>

Keys == 0..MaxKey
Undef == -1

RECURSIVE Pow2(_)
Pow2(k) == IF k <= 0 THEN 1 ELSE 2 * Pow2(k - 1)

RECURSIVE Log2(_)
Log2(v) == IF v <= 1 THEN 0 ELSE 1 + Log2(v \div 2)

Min(a, b) == IF a < b THEN a ELSE b

\* helper_nov.h is not part of the sources: a positive integer with one bit set.
IsPowerOfTwo(v) == v > 0 /\ Pow2(Log2(v)) = v

NoKernel == [kind |-> "none", size |-> 0, blocks |-> 0, threads |-> 0, level |-> 0]

EmptyArr == [i \in {} |-> 0]

\* The ascending arrangement of the keys of an array (std::sort of the harness).
CountOf(arr, k) == Cardinality({i \in DOMAIN arr : arr[i] = k})
CountBelow(arr, k) == Cardinality({i \in DOMAIN arr : arr[i] < k})
SortedCopy(arr) ==
    [i \in DOMAIN arr |->
        CHOOSE k \in Keys : CountBelow(arr, k) <= i /\ i < CountBelow(arr, k) + CountOf(arr, k)]

\* CompareResults of the harness: 0 when the two arrays are equal element by
\* element, 1 otherwise.
CompareResults(a, b) == IF a = b THEN 0 ELSE 1

----------------------------------------------------------------------------
\* Variant of shuffleN with the even and odd branches exchanged.
ShuffleSrcBranchesSwapped(size, ind_in) ==
    IF ind_in % 2 = 0 THEN (size \div 2) + (ind_in \div 2)
    ELSE ind_in \div 2

\* shuffleN: the index read for output position ind_in of a segment.
ShuffleSrc(size, ind_in) ==
    IF ind_in % 2 = 0 THEN ind_in \div 2
    ELSE (size \div 2) + (ind_in \div 2)

\* Variant of butterflyN whose odd first-half lanes jump a full half segment.
ButterflySrcFullHalf(size, ind_in) ==
    IF ind_in < size \div 2
    THEN IF ind_in % 2 = 0 THEN ind_in ELSE ind_in + (size \div 2)
    ELSE IF ind_in % 2 = 0 THEN ind_in - (size \div 2 - 1) ELSE ind_in

\* Variant of butterflyN with the parity test of the first half inverted.
ButterflySrcEvenMoves(size, ind_in) ==
    IF ind_in < size \div 2
    THEN IF ind_in % 2 = 0 THEN ind_in + (size \div 2 - 1) ELSE ind_in
    ELSE IF ind_in % 2 = 0 THEN ind_in - (size \div 2 - 1) ELSE ind_in

\* butterflyN: the index read for output position ind_in of a segment.
ButterflySrc(size, ind_in) ==
    IF ind_in < size \div 2
    THEN IF ind_in % 2 = 0 THEN ind_in ELSE ind_in + (size \div 2 - 1)
    ELSE IF ind_in % 2 = 0 THEN ind_in - (size \div 2 - 1) ELSE ind_in

\* The index read for output position ind_in by the kernel of the given kind.
SrcIndex(kind, size, ind_in) ==
    IF kind = "shuffleN" THEN ShuffleSrc(size, ind_in) ELSE ButterflySrc(size, ind_in)

\* The ping-pong body shared by both permutation kernels: every block scatters
\* its segment of in to out, then copies out back to in.
Scatter(in, size, blocks, kind) ==
    [j \in 0..(blocks * size - 1) |->
        in[(j \div size) * size + SrcIndex(kind, size, j % size)]]

PermuteOut(in, out, size, blocks, kind) ==
    [j \in DOMAIN out |->
        IF j < blocks * size THEN Scatter(in, size, blocks, kind)[j] ELSE out[j]]

PermuteIn(in, size, blocks, kind) ==
    [j \in DOMAIN in |->
        IF j < blocks * size THEN Scatter(in, size, blocks, kind)[j] ELSE in[j]]

----------------------------------------------------------------------------
\* compareAndSwap: direction bit, swap condition, and the loop range.
CompBool(comp_ind, lvl) == (comp_ind \div Pow2(lvl)) % 2 = 1

SwapNeeded(a, b, comp_bool) == (comp_bool /\ a < b) \/ (~comp_bool /\ a >= b)

\* comp_ind runs over 0..N-1 (loop test comp_ind < N).
CompInds(cnt) == 0..(cnt - 1)

\* Comparators whose operands 2c and 2c+1 both lie inside the N-element array.
InBounds(cnt) == {c \in CompInds(cnt) : 2 * c + 1 < cnt}
OutOfBounds(cnt) == CompInds(cnt) \ InBounds(cnt)

\* Variant of the exchange that stores only the first operand.
CasOnHalfSwap(in, D, lvl) ==
    [i \in DOMAIN in |->
        LET c == i \div 2
            d0 == 2 * c
            d1 == 2 * c + 1
        IN  IF c \in D /\ SwapNeeded(in[d0], in[d1], CompBool(c, lvl)) /\ i = d0
            THEN in[d1]
            ELSE in[i]]

\* The array after the comparators in D have run.
CasOn(in, D, lvl) ==
    [i \in DOMAIN in |->
        LET c == i \div 2
            d0 == 2 * c
            d1 == 2 * c + 1
        IN  IF c \in D /\ SwapNeeded(in[d0], in[d1], CompBool(c, lvl))
            THEN (IF i = d0 THEN in[d1] ELSE in[d0])
            ELSE in[i]]

\* Launch geometry of compareAndSwap<<<compThreadNum, compBlockNum>>>.
CompBlockNum(cnt) == Min(MaxBlockNum, (cnt + compThreadNum - 1) \div compThreadNum)
CasGrid(cnt) == compThreadNum
CasBlockDim(cnt) == CompBlockNum(cnt)
\* Variant of the grid stride that forgets gridDim.x.
CasStrideBlockOnly(cnt) == CasBlockDim(cnt)
CasStride(cnt) == CasBlockDim(cnt) * CasGrid(cnt)
\* Lanes are numbered blockDim.x*blockIdx.x + threadIdx.x.
CasLanes(cnt) == 0..(CasGrid(cnt) * CasBlockDim(cnt) - 1)
\* The comparator indices visited by one lane.
CasLaneItems(lane, cnt) ==
    {c \in CompInds(cnt) : c >= lane /\ (c - lane) % CasStride(cnt) = 0}
\* Lanes whose first comp_ind passes the loop test.
CasActiveLanes(cnt) == {l \in 0..(cnt - 1) : l \in CasLanes(cnt)}
\* Every memory access of one compareAndSwap launch: the direction table entry
\* written and the two operands read (and possibly exchanged) per comparator.
CasAccesses(cnt) ==
    UNION {
        UNION { { [lane |-> l, arr |-> "directions", idx |-> c],
                  [lane |-> l, arr |-> "x", idx |-> 2 * c],
                  [lane |-> l, arr |-> "x", idx |-> 2 * c + 1] } :
                c \in CasLaneItems(l, cnt) } :
        l \in CasActiveLanes(cnt) }

----------------------------------------------------------------------------
Init ==
    /\ N \in 1..MaxN
    /\ n = Log2(N)
    /\ pc = "main_check"
    /\ stage = 0 /\ substage = 0 /\ level = 0 /\ div = 0 /\ threadNum = 0
    /\ x = EmptyArr /\ y = EmptyArr
    /\ kernel = NoKernel
    /\ kstate = "idle"
    /\ devErr = FALSE
    /\ launches = <<>>
    /\ xPre = EmptyArr
    /\ h_reference_data = EmptyArr
    /\ allocated = FALSE
    /\ exitStatus = -1
    /\ inputSorted = FALSE
    /\ h_data = "unset"
    /\ compare = -1
    /\ progress = {}

benyanLocals == <<stage, substage, level, div, threadNum>>
deviceMem == <<x, y>>
deviceCtl == <<kernel, kstate, devErr, launches, xPre, progress>>
hostMain == <<N, n, h_reference_data, allocated, exitStatus, inputSorted, h_data, compare>>

\* Variant of the guard that reports nothing and carries on.
MainRejectIgnored ==
    /\ pc = "main_check"
    /\ ~IsPowerOfTwo(N)
    /\ pc' = "main_alloc"
    /\ UNCHANGED <<N, n, h_reference_data, allocated, exitStatus, inputSorted,
                   h_data, compare, stage, substage,
                   level, div, threadNum, x, y, kernel, kstate, devErr, launches, xPre, progress>>

\* main: the power-of-two guard rejects the run (message on stderr, exit(1)).
MainReject ==
    /\ pc = "main_check"
    /\ ~IsPowerOfTwo(N)
    /\ pc' = "exit"
    /\ exitStatus' = 1
    /\ UNCHANGED <<N, n, h_reference_data, allocated, inputSorted, h_data, compare,
                   benyanLocals, deviceMem, deviceCtl>>

MainAccept ==
    /\ pc = "main_check"
    /\ IsPowerOfTwo(N)
    /\ pc' = "main_alloc"
    /\ UNCHANGED <<hostMain, benyanLocals, deviceMem, deviceCtl>>

\* main: allocate host and device arrays, generate the keys and their reference
\* ordering, copy the keys to the device.
MainAllocateFrom(inputs) ==
    /\ pc = "main_alloc"
    /\ \E data \in inputs :
          /\ x' = data
          /\ h_reference_data' = SortedCopy(data)
          /\ inputSorted' = (data = SortedCopy(data))
    /\ y' = [i \in 0..(N - 1) |-> Undef]
    /\ h_data' = "input"
    /\ allocated' = TRUE
    /\ pc' = "benyan_entry"
    /\ UNCHANGED <<N, n, exitStatus, compare, benyanLocals, deviceCtl>>

\* Every array of N keys.
AllInputs(cnt) == [0..(cnt - 1) -> Keys]
MainAllocate == MainAllocateFrom(AllInputs(N))

\* The inputs of the lane-level specification: the arrays in which at most
\* MaxLaneOnes positions hold the largest key and all others the smallest.
LaneInputs(cnt) ==
    {d \in [0..(cnt - 1) -> {0, MaxKey}] : CountOf(d, MaxKey) <= MaxLaneOnes}
MainAllocateLanes == MainAllocateFrom(LaneInputs(N))

\* benyan: initialisation of the locals.
BenyanEntry ==
    /\ pc = "benyan_entry"
    /\ level' = 0 /\ stage' = 0 /\ substage' = 0
    /\ pc' = "outer"
    /\ UNCHANGED <<div, threadNum, hostMain, deviceMem, deviceCtl>>

\* Variant of the outer loop test that runs one stage too many.
OuterTestInclusive ==
    /\ pc = "outer"
    /\ pc' = IF stage <= n THEN "inner" ELSE "returned"
    /\ UNCHANGED <<N, n, h_reference_data, allocated, exitStatus, inputSorted,
                   h_data, compare, stage, substage,
                   level, div, threadNum, x, y, kernel, kstate, devErr, launches, xPre, progress>>

\* while (stage < n)
OuterTest ==
    /\ pc = "outer"
    /\ pc' = IF stage < n THEN "inner" ELSE "returned"
    /\ UNCHANGED <<hostMain, benyanLocals, deviceMem, deviceCtl>>

\* while (substage <= stage)
InnerTest ==
    /\ pc = "inner"
    /\ pc' = IF substage <= stage THEN "cas1" ELSE "stage_inc"
    /\ UNCHANGED <<hostMain, benyanLocals, deviceMem, deviceCtl>>

\* A kernel launch: asynchronous; it fails at once when the device is in error.
Launch(k) ==
    /\ kernel' = k
    /\ kstate' = IF devErr THEN "failed" ELSE "running"
    /\ launches' = Append(launches, k.kind)
    /\ xPre' = x
    /\ progress' = {}
    /\ UNCHANGED devErr

CasKernel == [kind |-> "compareAndSwap", size |-> N, blocks |-> CasGrid(N),
              threads |-> CasBlockDim(N), level |-> level]

PermKernel(kind, d, t) == [kind |-> kind, size |-> N \div d, blocks |-> d,
                           threads |-> t, level |-> level]

\* Variant of the synchronisation that returns without waiting.
CudaDeviceSynchronizeNoWait ==
    /\ UNCHANGED <<kernel, kstate, devErr, launches, xPre, progress>>

\* cudaDeviceSynchronize: returns once no kernel is running; its status is dropped.
CudaDeviceSynchronize ==
    /\ kstate # "running"
    /\ kstate' = "idle"
    /\ UNCHANGED <<kernel, devErr, launches, xPre, progress>>

\* Variant of the first launch site whose div ignores the substage.
LaunchCompare1DivOfStage ==
    /\ pc = "cas1"
    /\ div' = N \div Pow2(2 + stage)
    /\ Launch(CasKernel)
    /\ pc' = "sync1"
    /\ UNCHANGED <<stage, substage, level, threadNum, hostMain, deviceMem>>

\* div = N/(pow(2,2+stage-substage)); compareAndSwap<<<...>>>(x, comparators, level, N)
LaunchCompare1 ==
    /\ pc = "cas1"
    /\ div' = N \div Pow2(2 + stage - substage)
    /\ Launch(CasKernel)
    /\ pc' = "sync1"
    /\ UNCHANGED <<stage, substage, level, threadNum, hostMain, deviceMem>>

Sync1 ==
    /\ pc = "sync1"
    /\ CudaDeviceSynchronize
    /\ pc' = "ifstage"
    /\ UNCHANGED <<hostMain, benyanLocals, deviceMem>>

\* Variant of the branch that launches shuffleN at every substage.
IfStageAlwaysShuffle ==
    /\ pc = "ifstage"
    /\ IF stage < n - 1
       THEN /\ threadNum' = Min(MaxShuffleThreads, N \div div)
            /\ pc' = "shuffle"
       ELSE /\ pc' = "stage_inc"
            /\ UNCHANGED threadNum
    /\ UNCHANGED <<stage, substage, level, div, hostMain, deviceMem, deviceCtl>>

\* Variant of the branch with level++ outside the test of substage.
IfStageLevelEverySubstage ==
    /\ pc = "ifstage"
    /\ IF stage < n - 1
       THEN /\ threadNum' = Min(MaxShuffleThreads, N \div div)
            /\ pc' = IF substage = 0 THEN "shuffle" ELSE "level_inc"
       ELSE /\ pc' = "stage_inc"
            /\ UNCHANGED threadNum
    /\ UNCHANGED <<stage, substage, level, div, hostMain, deviceMem, deviceCtl>>

\* if (stage < n-1) { threadNum = ...; if (substage == 0) ... } else break
IfStage ==
    /\ pc = "ifstage"
    /\ IF stage < n - 1
       THEN /\ threadNum' = Min(MaxShuffleThreads, N \div div)
            /\ pc' = IF substage = 0 THEN "shuffle" ELSE "cas2"
       ELSE /\ pc' = "stage_inc"
            /\ UNCHANGED threadNum
    /\ UNCHANGED <<stage, substage, level, div, hostMain, deviceMem, deviceCtl>>

LaunchShuffle ==
    /\ pc = "shuffle"
    /\ Launch(PermKernel("shuffleN", div, threadNum))
    /\ pc' = "sync2"
    /\ UNCHANGED <<hostMain, benyanLocals, deviceMem>>

Sync2 ==
    /\ pc = "sync2"
    /\ CudaDeviceSynchronize
    /\ pc' = "level_inc"
    /\ UNCHANGED <<hostMain, benyanLocals, deviceMem>>

LevelInc ==
    /\ pc = "level_inc"
    /\ level' = level + 1
    /\ pc' = "cas2"
    /\ UNCHANGED <<stage, substage, div, threadNum, hostMain, deviceMem, deviceCtl>>

LaunchCompare2 ==
    /\ pc = "cas2"
    /\ Launch(CasKernel)
    /\ pc' = "sync3"
    /\ UNCHANGED <<hostMain, benyanLocals, deviceMem>>

Sync3 ==
    /\ pc = "sync3"
    /\ CudaDeviceSynchronize
    /\ pc' = "butterfly"
    /\ UNCHANGED <<hostMain, benyanLocals, deviceMem>>

LaunchButterfly ==
    /\ pc = "butterfly"
    /\ Launch(PermKernel("butterflyN", div, threadNum))
    /\ pc' = "sync4"
    /\ UNCHANGED <<hostMain, benyanLocals, deviceMem>>

Sync4 ==
    /\ pc = "sync4"
    /\ CudaDeviceSynchronize
    /\ pc' = "sub_inc"
    /\ UNCHANGED <<hostMain, benyanLocals, deviceMem>>

SubInc ==
    /\ pc = "sub_inc"
    /\ substage' = substage + 1
    /\ pc' = "inner"
    /\ UNCHANGED <<stage, level, div, threadNum, hostMain, deviceMem, deviceCtl>>

\* Variant of the end of a stage that forgets substage = 0.
StageIncKeepsSubstage ==
    /\ pc = "stage_inc"
    /\ stage' = stage + 1
    /\ pc' = "outer"
    /\ UNCHANGED <<substage, level, div, threadNum, hostMain, deviceMem, deviceCtl>>

\* stage++; substage = 0;
StageInc ==
    /\ pc = "stage_inc"
    /\ stage' = stage + 1
    /\ substage' = 0
    /\ pc' = "outer"
    /\ UNCHANGED <<level, div, threadNum, hostMain, deviceMem, deviceCtl>>

\* main, after benyan has returned: cudaMemcpy(h_data, d_data, ...,
\* cudaMemcpyDeviceToHost). Its status is dropped; on a device in error nothing
\* is copied and h_data keeps the generated keys.
MainReadback ==
    /\ pc = "returned"
    /\ h_data' = IF devErr THEN h_data ELSE "output"
    /\ pc' = "main_compare"
    /\ UNCHANGED <<N, n, h_reference_data, allocated, exitStatus, inputSorted, compare,
                   benyanLocals, deviceMem, deviceCtl>>

\* compare = CompareResults(h_data, h_reference_data, N, g_verbose);
\* AssertEquals(0, compare);
MainCompare ==
    /\ pc = "main_compare"
    /\ compare' = IF h_data = "output"
                  THEN CompareResults(x, h_reference_data)
                  ELSE (IF inputSorted THEN 0 ELSE 1)
    /\ IF compare' = 0
       THEN pc' = "main_done" /\ UNCHANGED exitStatus
       ELSE pc' = "exit" /\ exitStatus' = 1
    /\ UNCHANGED <<N, n, h_reference_data, allocated, inputSorted, h_data,
                   benyanLocals, deviceMem, deviceCtl>>

----------------------------------------------------------------------------
\* Device side: execution of the kernel in flight.

\* compareAndSwap runs to completion: the comparators inside the array act on x,
\* those past its end read and swap memory that is not part of x.
RunCompareAndSwap ==
    /\ kstate = "running"
    /\ kernel.kind = "compareAndSwap"
    /\ x' = CasOn(x, InBounds(kernel.size), kernel.level)
    /\ kstate' = "done"
    /\ UNCHANGED <<y, kernel, devErr, launches, xPre, progress, pc, hostMain, benyanLocals>>

\* compareAndSwap touches memory past the end of x: the access may instead raise a
\* device fault, which kills the kernel with only some comparators executed and
\* leaves the device in error.
FaultCompareAndSwap ==
    /\ kstate = "running"
    /\ kernel.kind = "compareAndSwap"
    /\ OutOfBounds(kernel.size) # {}
    /\ \E D \in SUBSET InBounds(kernel.size) : x' = CasOn(x, D, kernel.level)
    /\ kstate' = "failed"
    /\ devErr' = TRUE
    /\ UNCHANGED <<y, kernel, launches, xPre, progress, pc, hostMain, benyanLocals>>

RunShuffleN ==
    /\ kstate = "running"
    /\ kernel.kind = "shuffleN"
    /\ y' = PermuteOut(x, y, kernel.size, kernel.blocks, kernel.kind)
    /\ x' = PermuteIn(x, kernel.size, kernel.blocks, kernel.kind)
    /\ kstate' = "done"
    /\ UNCHANGED <<kernel, devErr, launches, xPre, progress, pc, hostMain, benyanLocals>>

RunButterflyN ==
    /\ kstate = "running"
    /\ kernel.kind = "butterflyN"
    /\ y' = PermuteOut(x, y, kernel.size, kernel.blocks, kernel.kind)
    /\ x' = PermuteIn(x, kernel.size, kernel.blocks, kernel.kind)
    /\ kstate' = "done"
    /\ UNCHANGED <<kernel, devErr, launches, xPre, progress, pc, hostMain, benyanLocals>>

----------------------------------------------------------------------------
\* Device side, lane by lane: one step is one loop iteration of one thread.
\* progress holds the iterations completed by the kernel in flight.

\* shuffleN/butterflyN: the block and the thread that handle global index j.
PermBlock(j) == j \div kernel.size
PermThread(j) == (j % kernel.size) % kernel.threads
PermIndices == 0..(kernel.blocks * kernel.size - 1)
\* Indices the thread of j handles before j in either loop (ind_in += stride).
PermEarlier(j) ==
    {k \in PermIndices : PermBlock(k) = PermBlock(j) /\ PermThread(k) = PermThread(j) /\ k < j}
\* Variant of the barrier that is released as soon as the first thread of the
\* block arrives.
BlockScatteredByFirstThread(b) == <<"scatter", b * kernel.size>> \in progress

\* Every thread of block b has left the first loop and reached __syncthreads().
BlockScattered(b) ==
    \A k \in PermIndices : PermBlock(k) = b => <<"scatter", k>> \in progress
AllCopied(done) == \A k \in PermIndices : <<"copy", k>> \in done

\* out[ind_in_base+ind_in] = in[ind_in_base+ind_out];
LaneScatter(j) ==
    /\ kstate = "running"
    /\ kernel.kind \in {"shuffleN", "butterflyN"}
    /\ j \in PermIndices
    /\ <<"scatter", j>> \notin progress
    /\ \A k \in PermEarlier(j) : <<"scatter", k>> \in progress
    /\ y' = [y EXCEPT ![j] = x[PermBlock(j) * kernel.size
                                + SrcIndex(kernel.kind, kernel.size, j % kernel.size)]]
    /\ progress' = progress \cup {<<"scatter", j>>}
    /\ UNCHANGED <<x, kernel, kstate, devErr, launches, xPre, pc, hostMain, benyanLocals>>

\* Variant of the copy-back that does not wait at the barrier.
LaneCopyNoBarrier(j) ==
    /\ kstate = "running"
    /\ kernel.kind \in {"shuffleN", "butterflyN"}
    /\ j \in PermIndices
    /\ <<"scatter", j>> \in progress
    /\ <<"copy", j>> \notin progress
    /\ \A k \in PermEarlier(j) : <<"copy", k>> \in progress
    /\ x' = [x EXCEPT ![j] = y[j]]
    /\ progress' = progress \cup {<<"copy", j>>}
    /\ kstate' = IF AllCopied(progress') THEN "done" ELSE "running"
    /\ UNCHANGED <<y, kernel, devErr, launches, xPre, pc, hostMain, benyanLocals>>

\* __syncthreads(); in[ind_in_base+ind_in] = out[ind_in_base+ind_in];
\* The kernel is finished when the last thread has left the second loop.
LaneCopy(j) ==
    /\ kstate = "running"
    /\ kernel.kind \in {"shuffleN", "butterflyN"}
    /\ j \in PermIndices
    /\ BlockScattered(PermBlock(j))
    /\ <<"copy", j>> \notin progress
    /\ \A k \in PermEarlier(j) : <<"copy", k>> \in progress
    /\ x' = [x EXCEPT ![j] = y[j]]
    /\ progress' = progress \cup {<<"copy", j>>}
    /\ kstate' = IF AllCopied(progress') THEN "done" ELSE "running"
    /\ UNCHANGED <<y, kernel, devErr, launches, xPre, pc, hostMain, benyanLocals>>

\* compareAndSwap: comparator indices the lane of c handles before c.
CasEarlier(c) ==
    {k \in CompInds(kernel.size) : k < c /\ (c - k) % CasStride(kernel.size) = 0}

\* One loop iteration of compareAndSwap; past the end of x it reads and swaps
\* memory that is not part of x.
LaneCompare(c) ==
    /\ kstate = "running"
    /\ kernel.kind = "compareAndSwap"
    /\ c \in CompInds(kernel.size)
    /\ <<"compare", c>> \notin progress
    /\ \A k \in CasEarlier(c) : <<"compare", k>> \in progress
    /\ x' = CasOn(x, {c} \cap InBounds(kernel.size), kernel.level)
    /\ progress' = progress \cup {<<"compare", c>>}
    /\ kstate' = IF \A k \in CompInds(kernel.size) : <<"compare", k>> \in progress'
                 THEN "done" ELSE "running"
    /\ UNCHANGED <<y, kernel, devErr, launches, xPre, pc, hostMain, benyanLocals>>

\* The access past the end of x raises a device fault instead: the kernel is
\* killed where it stands and the device is left in error.
LaneFault(c) ==
    /\ kstate = "running"
    /\ kernel.kind = "compareAndSwap"
    /\ c \in OutOfBounds(kernel.size)
    /\ <<"compare", c>> \notin progress
    /\ \A k \in CasEarlier(c) : <<"compare", k>> \in progress
    /\ kstate' = "failed"
    /\ devErr' = TRUE
    /\ UNCHANGED <<x, y, kernel, launches, xPre, progress, pc, hostMain, benyanLocals>>

Next ==
    \/ MainReject \/ MainAccept \/ MainAllocate \/ BenyanEntry
    \/ OuterTest \/ InnerTest
    \/ LaunchCompare1 \/ Sync1 \/ IfStage
    \/ LaunchShuffle \/ Sync2 \/ LevelInc
    \/ LaunchCompare2 \/ Sync3
    \/ LaunchButterfly \/ Sync4 \/ SubInc
    \/ StageInc
    \/ MainReadback \/ MainCompare
    \/ RunCompareAndSwap \/ FaultCompareAndSwap
    \/ RunShuffleN \/ RunButterflyN

Spec == Init /\ [][Next]_vars

\* The same program with the kernels executed lane by lane.
NextLanes ==
    \/ MainReject \/ MainAccept \/ MainAllocateLanes \/ BenyanEntry
    \/ OuterTest \/ InnerTest
    \/ LaunchCompare1 \/ Sync1 \/ IfStage
    \/ LaunchShuffle \/ Sync2 \/ LevelInc
    \/ LaunchCompare2 \/ Sync3
    \/ LaunchButterfly \/ Sync4 \/ SubInc
    \/ StageInc
    \/ MainReadback \/ MainCompare
    \/ \E c \in 0..(MaxN - 1) : LaneCompare(c)
    \/ \E c \in 0..(MaxN - 1) : LaneFault(c)
    \/ \E j \in 0..(MaxN - 1) : LaneScatter(j)
    \/ \E j \in 0..(MaxN - 1) : LaneCopy(j)

SpecLanes == Init /\ [][NextLanes]_vars

\* Host progress and device progress are both guaranteed: the host thread runs
\* straight-line code and a launched kernel is executed by the device.
FairSpec == Spec /\ WF_vars(Next)

----------------------------------------------------------------------------
\* Properties.

Sorted(arr) == \A i \in DOMAIN arr : (i + 1) \in DOMAIN arr => arr[i] <= arr[i + 1]
SameKeys(a, b) == \A k \in Keys : CountOf(a, k) = CountOf(b, k)
LaunchSites == {"cas1", "shuffle", "cas2", "butterfly"}
PermKinds == {"shuffleN", "butterflyN"}
KernelSrc(size, i) == SrcIndex(kernel.kind, size, i)

\* C1: when benyan returns, the whole array is sorted ascending:
\* x[i] <= x[i+1] for every 0 <= i < N-1.
C1_SortedOnReturn == pc = "returned" => Sorted(x)

\* The ordering is reached in every run in which no launch failed.
SortedUnlessDeviceError == (pc = "returned" /\ ~devErr) => x = h_reference_data

\* C2: after every kernel step of benyan the keys stored in x[0..N) are, as a
\* multiset, the keys of the input.
C2_KeysPreserved == allocated => SameKeys(x, h_reference_data)

C2_Witness ==
    /\ kstate = "done"
    /\ kernel.kind = "butterflyN"
    /\ x # xPre
    /\ Len(launches) >= 8

\* C3: for every shuffleN and butterflyN launch of benyan the segment size S is a
\* power of two >= 4 and the index map ind_in -> ind_out is a bijection on [0, S).
C3_IndexMapBijective ==
    (kernel.kind \in PermKinds /\ kstate # "idle") =>
        LET S == kernel.size IN
        /\ IsPowerOfTwo(S) /\ S >= 4
        /\ \A i \in 0..(S - 1) : KernelSrc(S, i) \in 0..(S - 1)
        /\ \A j \in 0..(S - 1) : Cardinality({i \in 0..(S - 1) : KernelSrc(S, i) = j}) = 1

C3_Witness ==
    /\ kernel.kind = "butterflyN"
    /\ kernel.size = 8
    /\ kstate = "done"
    /\ x # xPre

\* C4: after a compareAndSwap launch at level L every comparator c in [0, N/2) has
\* its pair ordered, ascending when bit L of c is 0 and descending otherwise, and
\* the pair holds the same two keys as before the launch.
PairOrdered(c, lvl) ==
    IF CompBool(c, lvl) THEN x[2 * c] >= x[2 * c + 1] ELSE x[2 * c] <= x[2 * c + 1]
PairKept(c) ==
    \/ (x[2 * c] = xPre[2 * c] /\ x[2 * c + 1] = xPre[2 * c + 1])
    \/ (x[2 * c] = xPre[2 * c + 1] /\ x[2 * c + 1] = xPre[2 * c])
C4_PairsOrderedAfterLaunch ==
    (pc \in {"sync1", "sync3"} /\ kstate # "running") =>
        \A c \in 0..((N \div 2) - 1) : PairOrdered(c, kernel.level) /\ PairKept(c)

\* The pairs are ordered whenever the kernel ran to completion.
PairsOrderedWhenCompleted ==
    (kernel.kind = "compareAndSwap" /\ kstate = "done") =>
        \A c \in 0..((N \div 2) - 1) : PairOrdered(c, kernel.level) /\ PairKept(c)

\* C5: a compareAndSwap launch processes exactly the comparators 0..N/2-1, and
\* every element index it reads or writes lies in [0, N).
C5_AccessesInsideArray ==
    (kernel.kind = "compareAndSwap" /\ kstate # "idle") =>
        /\ {a.idx : a \in {b \in CasAccesses(kernel.size) : b.arr = "directions"}}
               = 0..((N \div 2) - 1)
        /\ \A a \in CasAccesses(kernel.size) : a.arr = "x" => a.idx \in 0..(N - 1)

\* C6: every kernel launch of benyan is followed by a device-wide synchronisation
\* before the next launch is issued: when the host reaches a launch, the kernel
\* launched before it has finished and has been waited for.
C6_SynchronisedBeforeNextLaunch == pc \in LaunchSites => kstate = "idle"

C6_Witness ==
    /\ pc = "shuffle"
    /\ Len(launches) >= 1
    /\ kernel.kind = "compareAndSwap"
    /\ x # xPre

\* C7: within one compareAndSwap launch every comparator index is processed by
\* exactly one lane, and no location of x or of the direction table is accessed
\* by two different lanes.
C7_LanesDisjoint ==
    (kernel.kind = "compareAndSwap" /\ kstate # "idle") =>
        LET cnt == kernel.size IN
        /\ \A c \in CompInds(cnt) :
              Cardinality({l \in CasActiveLanes(cnt) : c \in CasLaneItems(l, cnt)}) = 1
        /\ \A a, b \in CasAccesses(cnt) :
              (a.arr = b.arr /\ a.idx = b.idx) => a.lane = b.lane

C7_Witness ==
    /\ kernel.kind = "compareAndSwap"
    /\ kstate = "done"
    /\ N = 8
    /\ x # xPre

C9_SmallestNetworks ==
    (pc = "benyan_entry" /\ n <= 1) ~>
        /\ pc = "returned"
        /\ n = 0 => (launches = <<>> /\ x = h_reference_data)
        /\ n = 1 => launches = <<"compareAndSwap">>

C9_Witness == pc = "returned" /\ n = 1 /\ launches = <<"compareAndSwap">>

\* C10 as stated: shuffleN moves the element at every even source index 2k to
\* position k and the element at every odd source index 2k+1 to position S/2 + k.
C10_Unshuffle ==
    (kernel.kind = "shuffleN" /\ kstate = "done") =>
        LET S == kernel.size IN
        \A b \in 0..(kernel.blocks - 1) : \A k \in 0..((S \div 2) - 1) :
            /\ x[b * S + k] = xPre[b * S + 2 * k]
            /\ x[b * S + (S \div 2) + k] = xPre[b * S + 2 * k + 1]

\* C10 amended: shuffleN moves the element at index k of the first half to
\* position 2k and the element at index S/2 + k of the second half to position
\* 2k+1 (a perfect shuffle, interleaving the two halves).
C10_Interleave ==
    (kernel.kind = "shuffleN" /\ kstate = "done") =>
        LET S == kernel.size IN
        \A b \in 0..(kernel.blocks - 1) : \A k \in 0..((S \div 2) - 1) :
            /\ x[b * S + 2 * k] = xPre[b * S + k]
            /\ x[b * S + 2 * k + 1] = xPre[b * S + (S \div 2) + k]

C10_Witness ==
    /\ kernel.kind = "shuffleN"
    /\ kstate = "done"
    /\ kernel.size = 8
    /\ x # xPre

\* C11: butterflyN on a segment of size S (a power of two >= 4) leaves index 0 and
\* index S-1 in place; for each odd i < S/2 the elements at i and i + S/2 - 1 are
\* exchanged (i lies in the first half, i + S/2 - 1 in the second), and every
\* other position is unchanged.
C11_ButterflyExchange ==
    (kernel.kind = "butterflyN" /\ kstate = "done") =>
        LET S == kernel.size
            H == S \div 2
            OddFirst == {i \in 0..(H - 1) : i % 2 = 1}
            Moved == OddFirst \cup {i + H - 1 : i \in OddFirst}
        IN  /\ IsPowerOfTwo(S) /\ S >= 4
            /\ \A b \in 0..(kernel.blocks - 1) :
                  LET base == b * S IN
                  /\ x[base] = xPre[base]
                  /\ x[base + S - 1] = xPre[base + S - 1]
                  /\ \A i \in OddFirst :
                        /\ i < H /\ i + H - 1 >= H
                        /\ x[base + i] = xPre[base + i + H - 1]
                        /\ x[base + i + H - 1] = xPre[base + i]
                  /\ \A j \in (0..(S - 1)) \ Moved : x[base + j] = xPre[base + j]

C11_Witness ==
    /\ kernel.kind = "butterflyN"
    /\ kstate = "done"
    /\ kernel.size = 4
    /\ kernel.blocks = 2
    /\ x # xPre

\* C12: when a device operation of the sort has failed, the harness stops the
\* iteration before reading back and comparing: the host never goes on to the
\* read-back and never produces a comparison result after a device failure.
C12_FailureStopsIteration ==
    devErr => (pc \notin {"main_compare", "main_done"} /\ compare = -1)

\* C13: for keys that are already in non-decreasing order benyan returns the
\* identical sequence (so a second run of benyan on its own output changes
\* nothing).
C13_SortedInputUnchanged ==
    (pc = "returned" /\ inputSorted) => x = h_reference_data

\* The last k kernels launched, oldest first.
LastLaunches(k) == SubSeq(launches, Len(launches) - k + 1, Len(launches))

\* The last stage has launched one compareAndSwap and nothing else: the launch
\* before it, if any, is the butterflyN that ended the previous stage.
LastStageLaunchedOnce ==
    (pc = "stage_inc" /\ stage = n - 1) =>
        /\ Len(launches) >= 1
        /\ LastLaunches(1) = <<"compareAndSwap">>
        /\ Len(launches) >= 2 => launches[Len(launches) - 1] = "butterflyN"

\* C14 as stated: at every (stage, substage) with stage < n-1 the launches are
\* compareAndSwap, shuffleN, compareAndSwap, butterflyN, in this order, and then
\* substage is incremented; the last stage launches one compareAndSwap only.
C14_ShuffleEverySubstage ==
    /\ pc = "sub_inc" =>
          /\ stage < n - 1 /\ substage <= stage
          /\ Len(launches) >= 4
          /\ LastLaunches(4) = <<"compareAndSwap", "shuffleN", "compareAndSwap", "butterflyN">>
    /\ LastStageLaunchedOnce

\* C14 amended: at substage 0 of a stage < n-1 the launches are compareAndSwap,
\* shuffleN, compareAndSwap, butterflyN; at every substage >= 1 they are
\* compareAndSwap, compareAndSwap, butterflyN with no shuffleN (the launch before
\* them is the butterflyN of the previous substage); then substage is
\* incremented. The last stage launches one compareAndSwap only.
C14_ShuffleAtSubstageZero ==
    /\ pc = "sub_inc" =>
          /\ stage < n - 1 /\ substage <= stage
          /\ Len(launches) >= 4
          /\ IF substage = 0
             THEN LastLaunches(4) =
                      <<"compareAndSwap", "shuffleN", "compareAndSwap", "butterflyN">>
             ELSE LastLaunches(4) =
                      <<"butterflyN", "compareAndSwap", "compareAndSwap", "butterflyN">>
    /\ LastStageLaunchedOnce

C14_Witness ==
    /\ pc = "sub_inc"
    /\ stage = 1
    /\ substage = 1
    /\ kernel.kind = "butterflyN"

BlockSortedDir(b, w) ==
    \A i \in 0..(w - 2) :
        IF b % 2 = 0 THEN x[b * w + i] <= x[b * w + i + 1]
        ELSE x[b * w + i] >= x[b * w + i + 1]

\* C16: immediately after the first compareAndSwap of stage s every aligned
\* block b of 2^(s+1) elements of x is sorted, non-decreasing when b is even and
\* non-increasing when b is odd (so every aligned block of 2^(s+2) elements is
\* bitonic).
C16_BlocksSortedAfterFirstCompare ==
    (pc = "sync1" /\ substage = 0 /\ kstate # "running") =>
        \A b \in 0..((N \div Pow2(stage + 1)) - 1) : BlockSortedDir(b, Pow2(stage + 1))

\* The blocks are sorted whenever no launch has failed.
BlocksSortedWhenCompleted ==
    (pc = "sync1" /\ substage = 0 /\ kstate = "done") =>
        \A b \in 0..((N \div Pow2(stage + 1)) - 1) : BlockSortedDir(b, Pow2(stage + 1))

\* C17: for every shuffleN/butterflyN launch at (stage, substage) the segment
\* size is S = 2^(2+stage-substage) <= N and the div = N/S blocks tile the array
\* exactly; every index read or written in x and y lies in [0, N) and every
\* element stays inside its own aligned segment of S elements.
C17_SegmentsTileArray ==
    (pc \in {"sync2", "sync4"}) =>
        LET S == kernel.size IN
        /\ kernel.kind \in PermKinds
        /\ S = Pow2(2 + stage - substage)
        /\ S <= N
        /\ kernel.blocks = div /\ div = N \div S /\ div * S = N
        /\ kernel.threads >= 1
        /\ \A b \in 0..(kernel.blocks - 1) : \A t \in 0..(kernel.threads - 1) :
              \A i \in {k \in 0..(S - 1) : k % kernel.threads = t} :
                  LET written == b * S + i
                      read == b * S + KernelSrc(S, i)
                  IN  /\ written \in 0..(N - 1)
                      /\ read \in 0..(N - 1)
                      /\ read \div S = written \div S
        /\ {b * S + i : b \in 0..(kernel.blocks - 1), i \in 0..(S - 1)} = 0..(N - 1)

C17_Witness ==
    /\ pc = "sync4"
    /\ kernel.kind = "butterflyN"
    /\ kernel.size = 4
    /\ substage = 1
    /\ kstate = "done"
    /\ x # xPre

\* Positions of the host inside benyan, and those of a stage that come before
\* its level++.
BenyanPcs == {"outer", "inner", "cas1", "sync1", "ifstage", "shuffle", "sync2",
              "level_inc", "cas2", "sync3", "butterfly", "sync4", "sub_inc",
              "stage_inc", "returned"}
BeforeLevelInc == {"outer", "inner", "cas1", "sync1", "ifstage", "shuffle", "sync2",
                   "level_inc"}

\* C18: level is incremented exactly once per non-final stage, at substage 0
\* right after the shuffle: level is stage up to that increment and stage + 1
\* from it to the end of the stage, and it is not incremented in the last stage.
\* The first compareAndSwap of stage s is launched at level s, every later
\* compareAndSwap of stage s at level s + 1, and 0 <= level <= n-1 at every launch.
C18_LevelTracksStage ==
    pc \in BenyanPcs =>
        /\ level = (IF stage >= n THEN (IF n = 0 THEN 0 ELSE n - 1)
                    ELSE IF stage = n - 1 \/ (substage = 0 /\ pc \in BeforeLevelInc)
                         THEN stage
                         ELSE stage + 1)
        /\ pc \in {"sync1", "sync3"} =>
              /\ kernel.kind = "compareAndSwap"
              /\ kernel.level = (IF pc = "sync1" /\ substage = 0 THEN stage ELSE stage + 1)
        /\ pc \in {"sync1", "sync2", "sync3", "sync4"} =>
              (0 <= kernel.level /\ kernel.level <= n - 1 /\ kernel.level = level)

C18_Witness ==
    /\ pc = "sync1"
    /\ stage = 1
    /\ substage = 1
    /\ kernel.level = 2
    /\ kstate = "done"

\* Launches of a complete run of benyan with k stages: one compareAndSwap in the
\* last stage, four launches at substage 0 and three at every later substage of
\* each stage before it.
RECURSIVE LaunchTotal(_)
LaunchTotal(k) ==
    IF k = 0 THEN 0
    ELSE IF k = 1 THEN 1
    ELSE LaunchTotal(k - 1) + 4 + 3 * (k - 2)

\* C19: for every n >= 0 benyan terminates after finitely many launches with
\* stage = n; stage only ever advances by one, starting every stage at substage
\* 0, and within a non-final stage s substage advances by one from 0 to s before
\* the stage ends.
C19_Terminates ==
    /\ (pc = "benyan_entry") ~>
           (pc = "returned" /\ stage = n /\ Len(launches) = LaunchTotal(n))
    /\ [][/\ stage' # stage => (stage < n /\ stage' = stage + 1 /\ substage' = 0)
          /\ (stage' = stage /\ substage' # substage) =>
                 (stage < n - 1 /\ substage <= stage /\ substage' = substage + 1)]_vars
    /\ [](pc = "stage_inc" =>
             substage = (IF stage < n - 1 THEN stage + 1 ELSE 0))

C19_Witness ==
    /\ pc = "returned"
    /\ n = 3
    /\ stage = 3
    /\ Len(launches) = 12

\* The contents of x a kernel produces from the contents at its launch when all
\* of its lanes run to completion.
KernelResult ==
    IF kernel.kind = "compareAndSwap"
    THEN CasOn(xPre, InBounds(kernel.size), kernel.level)
    ELSE PermuteIn(xPre, kernel.size, kernel.blocks, kernel.kind)

\* C20: for a fixed input the contents of x after each kernel launch of benyan
\* are the same under every interleaving of lanes and blocks: once the launch is
\* over, x is one function of the contents at the launch; and the final output
\* is one function of the input.
C20_SameUnderEveryInterleaving ==
    /\ (kernel.kind # "none" /\ kstate \in {"done", "failed"}) => x = KernelResult
    /\ pc \in {"returned", "main_compare", "main_done"} => x = h_reference_data

\* Every launch that runs to completion gives the same contents, whatever the
\* order of its lanes.
SameResultWhenCompleted ==
    (kernel.kind # "none" /\ kstate = "done") => x = KernelResult

\* The location of in read by the scatter iteration that writes out[k].
ScatterReads(k) ==
    PermBlock(k) * kernel.size + SrcIndex(kernel.kind, kernel.size, k % kernel.size)

\* C21: in every shuffleN and butterflyN launch each block reads and writes only
\* its own segment [b*S, (b+1)*S) of in and out, and within a block no copy-back
\* write to in[j] occurs before every lane of that block has finished its
\* scatter reads of in: when in[j] has been written back, no scatter read of
\* in[j] and no scatter write of out[j] is still pending, so every value scattered
\* is the value in held when the kernel was launched.
C21_NoWriteWhileReadPending ==
    (kernel.kind \in PermKinds /\ kstate # "idle") =>
        LET S == kernel.size IN
        /\ \A k \in PermIndices :
              /\ k \in (PermBlock(k) * S)..((PermBlock(k) + 1) * S - 1)
              /\ ScatterReads(k) \in (PermBlock(k) * S)..((PermBlock(k) + 1) * S - 1)
              /\ <<"scatter", k>> \in progress => y[k] = xPre[ScatterReads(k)]
        /\ \A j \in PermIndices :
              <<"copy", j>> \in progress =>
                  /\ <<"scatter", j>> \in progress
                  /\ \A k \in PermIndices :
                        (PermBlock(k) = PermBlock(j) \/ ScatterReads(k) = j)
                            => <<"scatter", k>> \in progress
                  /\ x[j] = y[j]

\* A block is copying back changed contents while the other block of the launch
\* is still in its scatter loop.
C21_Witness ==
    /\ kernel.kind = "butterflyN"
    /\ kstate = "running"
    /\ kernel.blocks = 2
    /\ <<"copy", 1>> \in progress
    /\ x[1] # xPre[1]
    /\ <<"scatter", kernel.size>> \notin progress

====
